---- MODULE Spec2Model ----
(***************************************************************************)
(* Presence reconciliation engine of the Twitch presence tracker:         *)
(* the tenant registry (sessions), the per-tenant tick (tickOne), the     *)
(* round over all tenants (tickAll) started by the timers, the session    *)
(* store (events and sessions tables), the credential file and the HTTP   *)
(* handlers that write tenant state (/auth/callback, /track/set,          *)
(* /auth/logout).  Every action is one run-to-completion slice of the     *)
(* Node event loop: from the resumption of an awaited external call to    *)
(* the next external call.                                                *)
(***************************************************************************)
EXTENDS Integers, Sequences, FiniteSets, TLC

VARIABLES
    sessions,   \* registry: sequence of tenant objects, in Map insertion order
    auth,       \* heap of tenant auth objects, by object id
    events,     \* store: events table, in id order
    sessTable,  \* store: sessions table, in id order
    saved,      \* credential file written by persistAuth, one record per sid
    queue,      \* enricher: pending usernames, in Set insertion order
    running,    \* enricher: the reentrancy flag of drain
    drains,     \* in-flight drain invocations, one frame per slot
    profiles,   \* store: users table, by username
    cfgToken,   \* cfgForEnrich.userAccessToken
    now,        \* Date.now()
    round,      \* in-flight tickAll invocations, one frame per slot
    req,        \* in-flight HTTP handlers, one frame per slot
    last        \* the slice that ran last (history, written by every action)

vars == <<sessions, auth, events, sessTable, saved, queue, running, drains, profiles,
          cfgToken, now, round, req, last>>

----------------------------------------------------------------------------
(* Bounds of the model *)

MaxEvents == 2
MaxEventsSeq == 4
MaxEventsConc == 1
MaxObjs == 3
MaxTenants == 1
BurstSize == 51

(* Program constants *)

RefreshMarginMs == 60000
MsPerSec == 1000
BatchSize == 50

NULL == "null"
NoTime == -1

EmptyScopes == "[]"

RawLogins == {"Alice", "bob ", ""}
Channels == {"chanx", "chany"}
Scopes == {"sc"}
ExpiresIn == {61}
Rounds == {1, 2}
Reqs == {1}
DrainSlots == {1, 2}

Max(x, y) == IF x >= y THEN x ELSE y

(* Mutant: names keep their letter case. *)
ToLower_Identity(s) == s

ToLower(s) ==
    CASE s = "Alice" -> "alice"
      [] s = "ALICE" -> "alice"
      [] OTHER -> s

Trim(s) ==
    CASE s = "bob " -> "bob"
      [] OTHER -> s

Users == {Trim(ToLower(s)) : s \in RawLogins} \ {""}

Truthy(v) == v # NULL /\ v # ""

TruthyNum(n) == n # NoTime /\ n # 0

OrElse(v, d) == IF Truthy(v) THEN v ELSE d

Perms(S) == {f \in [1..Cardinality(S) -> S] : \A x \in S : \E i \in DOMAIN f : f[i] = x}

----------------------------------------------------------------------------
(* Tenant auth objects *)

newSessionAuth ==
    [token |-> NULL, refreshToken |-> NULL, tokenExpiresAt |-> NoTime,
     moderatorId |-> NULL, meLogin |-> NULL, tokenScopes |-> EmptyScopes,
     broadcasterId |-> NULL, broadcasterLogin |-> NULL,
     current |-> {}, lastPollAt |-> NoTime, lastError |-> NULL]

Creds(a) ==
    [token |-> a.token, refreshToken |-> a.refreshToken,
     tokenExpiresAt |-> a.tokenExpiresAt, moderatorId |-> a.moderatorId,
     meLogin |-> a.meLogin, tokenScopes |-> a.tokenScopes,
     broadcasterId |-> a.broadcasterId, broadcasterLogin |-> a.broadcasterLogin]

persistAuth(ss, h) == [i \in DOMAIN ss |-> Creds(h[ss[i]])]

BroadcasterIdOf(login) == login

----------------------------------------------------------------------------
(* Session store *)

insertEvent(st, u, type, ts, ch) ==
    [st EXCEPT !.events = Append(@,
        [username |-> u, event_type |-> type, ts |-> ts, channel_login |-> ch])]

(* Mutant: a returning user gets the earlier row back, open again. *)
insertSession_Reopens(st, u, ts, ch) ==
    LET mine == {i \in DOMAIN st.sessions :
                    st.sessions[i].username = u /\ st.sessions[i].channel_login = ch} IN
    IF mine = {}
    THEN [st EXCEPT !.sessions = Append(@,
            [username |-> u, joined_at |-> ts, left_at |-> NoTime,
             duration_sec |-> NoTime, channel_login |-> ch])]
    ELSE LET i == CHOOSE k \in mine : \A j \in mine : k >= j IN
         [st EXCEPT !.sessions[i] = [@ EXCEPT !.left_at = NoTime, !.duration_sec = NoTime]]

insertSession(st, u, ts, ch) ==
    [st EXCEPT !.sessions = Append(@,
        [username |-> u, joined_at |-> ts, left_at |-> NoTime,
         duration_sec |-> NoTime, channel_login |-> ch])]

OpenRows(tbl, u, ch) ==
    {i \in DOMAIN tbl : tbl[i].username = u /\ tbl[i].left_at = NoTime
                        /\ tbl[i].channel_login = ch}

LatestOpen(tbl, u, ch) ==
    {i \in OpenRows(tbl, u, ch) :
        \A j \in OpenRows(tbl, u, ch) : tbl[j].joined_at <= tbl[i].joined_at}

PickRow(S, pick) ==
    IF pick = "low" THEN CHOOSE i \in S : \A j \in S : i <= j
                    ELSE CHOOSE i \in S : \A j \in S : i >= j

(* Mutant: the duration is not clamped at 0. *)
DurationSec_NoClamp(ts, joinedAt) == (ts - joinedAt) \div MsPerSec

DurationSec(ts, joinedAt) == Max(0, (ts - joinedAt) \div MsPerSec)

closeSession(st, ts, u, ch, pick) ==
    LET cand == LatestOpen(st.sessions, u, ch) IN
    IF cand = {} THEN st
    ELSE LET i == PickRow(cand, pick) IN
         [st EXCEPT !.sessions[i] =
             [@ EXCEPT !.left_at = ts,
                       !.duration_sec = DurationSec(ts, st.sessions[i].joined_at)]]

getOpenSet(tbl, ch) ==
    {ToLower(tbl[i].username) :
        i \in {j \in DOMAIN tbl : tbl[j].left_at = NoTime /\ tbl[j].channel_login = ch}}

JoinStmts(u) == <<[k |-> "insertEvent", type |-> "join", u |-> u],
                  [k |-> "insertSession", type |-> "join", u |-> u]>>

LeaveStmts(u) == <<[k |-> "insertEvent", type |-> "leave", u |-> u],
                   [k |-> "closeSession", type |-> "leave", u |-> u]>>

RECURSIVE JoinAll(_)
JoinAll(jo) == IF jo = <<>> THEN <<>> ELSE JoinStmts(Head(jo)) \o JoinAll(Tail(jo))

RECURSIVE LeaveAll(_)
LeaveAll(lo) == IF lo = <<>> THEN <<>> ELSE LeaveStmts(Head(lo)) \o LeaveAll(Tail(lo))

TickStmts(jo, lo) == JoinAll(jo) \o LeaveAll(lo)

RunStmt(st, s, ts, ch, pick) ==
    CASE s.k = "insertEvent" -> insertEvent(st, s.u, s.type, ts, ch)
      [] s.k = "insertSession" -> insertSession(st, s.u, ts, ch)
      [] OTHER -> closeSession(st, ts, s.u, ch, pick)

RECURSIVE RunStmts(_, _, _, _, _, _)
RunStmts(st, stmts, n, ts, ch, pick) ==
    IF n = 0 \/ stmts = <<>> THEN st
    ELSE RunStmts(RunStmt(st, Head(stmts), ts, ch, pick), Tail(stmts), n - 1, ts, ch, pick)

----------------------------------------------------------------------------
(* Provider responses and errors *)

(* What the token endpoint answers to a code exchange and to a refresh. *)
ExchangeResponses ==
    [access_token : {"t1"}, refresh_token : {"r1", NULL},
     scope : Scopes, expires_in : ExpiresIn]

RefreshResponses ==
    [access_token : {"t2"}, refresh_token : {"r2", NULL},
     scope : Scopes \cup {NULL}, expires_in : ExpiresIn]

Err401 == [status |-> 401, msg |-> "unauthorized"]
ErrNet == [status |-> 0, msg |-> "network"]
ErrDb == [status |-> 0, msg |-> "db"]
ErrFs == [status |-> 0, msg |-> "fs"]
ProviderErrors == {Err401, ErrNet}

fetchChatters(raw) == {Trim(ToLower(x)) : x \in raw} \ {""}

Range(s) == {s[i] : i \in DOMAIN s}

(* Mutant: the pending names are kept in a list. *)
SetHas_Never(members, x) == FALSE

(* Set.add looks for the member before it adds. *)
SetHas(members, x) == x \in members

(* The loop of enqueue: iteration k adds the lower-cased name when the entry
   is truthy and the set, as grown by the iterations before it, does not have
   it; Set.add puts a new member at the end. *)
enqueue(q, usernames) ==
    LET name(k) == ToLower(usernames[k])
        before(k) == Range(q) \cup {name(j) : j \in {i \in 1..(k - 1) : Truthy(usernames[i])}}
        added == {k \in DOMAIN usernames :
                     Truthy(usernames[k]) /\ ~SetHas(before(k), name(k))}
        nth(m) == CHOOSE k \in added : Cardinality({j \in added : j <= k}) = m IN
    q \o [m \in 1..Cardinality(added) |-> name(nth(m))]

IdleDrain ==
    [pc |-> "idle", batch |-> <<>>, users |-> <<>>, i |-> 0, fcs |-> <<>>, tok |-> NULL]

----------------------------------------------------------------------------
(* tickOne and tickAll *)

IdleRound == [pc |-> "idle", pos |-> 0, a |-> 0, ts |-> NoTime, nfresh |-> 0, n401 |-> 0]

(* What the slice that ran last did: the operation, the tenant object it was
   about and, for a slice of tickOne, the tick's timestamp, the refresh calls
   it has issued so far (by ensureFreshToken, by the 401 handler), the error
   it caught, and the presence set and snapshot it diffed. *)
LastOf(op, o) ==
    [op |-> op, a |-> o, ts |-> NoTime, nfresh |-> 0, n401 |-> 0,
     err |-> NULL, prev |-> {}, next |-> {}]

LastTick(op, f, err, prev, next) ==
    [op |-> op, a |-> f.a, ts |-> f.ts, nfresh |-> f.nfresh, n401 |-> f.n401,
     err |-> err, prev |-> prev, next |-> next]

(* Mutant: the precondition of tickOne looks at the token only. *)
CanTick_TokenOnly(a) == Truthy(a.token)

CanTick(a) ==
    /\ Truthy(a.token)
    /\ Truthy(a.broadcasterId)
    /\ Truthy(a.moderatorId)
    /\ Truthy(a.broadcasterLogin)

(* Mutant: the refresh starts only after the margin has begun. *)
NeedsRefresh_Strict(a, t) ==
    /\ Truthy(a.refreshToken)
    /\ TruthyNum(a.tokenExpiresAt)
    /\ ~(t <= a.tokenExpiresAt - RefreshMarginMs)

NeedsRefresh(a, t) ==
    /\ Truthy(a.refreshToken)
    /\ TruthyNum(a.tokenExpiresAt)
    /\ ~(t < a.tokenExpiresAt - RefreshMarginMs)

(* Mutant: the refresh token is whatever the response carries. *)
ApplyRefresh_TakesRefreshToken(a, resp, t) ==
    [a EXCEPT !.token = resp.access_token,
              !.refreshToken = resp.refresh_token,
              !.tokenScopes = OrElse(resp.scope, a.tokenScopes),
              !.tokenExpiresAt = t + resp.expires_in * MsPerSec]

(* Mutant: the lifetime is taken as milliseconds. *)
ApplyRefresh_LifetimeAsMs(a, resp, t) ==
    [a EXCEPT !.token = resp.access_token,
              !.refreshToken = OrElse(resp.refresh_token, a.refreshToken),
              !.tokenScopes = OrElse(resp.scope, a.tokenScopes),
              !.tokenExpiresAt = t + resp.expires_in]

(* Mutant: a successful refresh also clears the last error. *)
ApplyRefresh_ClearsError(a, resp, t) ==
    [a EXCEPT !.token = resp.access_token,
              !.refreshToken = OrElse(resp.refresh_token, a.refreshToken),
              !.tokenScopes = OrElse(resp.scope, a.tokenScopes),
              !.tokenExpiresAt = t + resp.expires_in * MsPerSec,
              !.lastError = NULL]

ApplyRefresh(a, resp, t) ==
    [a EXCEPT !.token = resp.access_token,
              !.refreshToken = OrElse(resp.refresh_token, a.refreshToken),
              !.tokenScopes = OrElse(resp.scope, a.tokenScopes),
              !.tokenExpiresAt = t + resp.expires_in * MsPerSec]

NextPos(ss, h, p) ==
    LET C == {i \in DOMAIN ss : i > p /\ CanTick(h[ss[i]])} IN
    IF C = {} THEN 0 ELSE CHOOSE i \in C : \A j \in C : i <= j

(* tickAll from position p: tenants failing the precondition return at once;
   the first one that passes records ts and lastPollAt and suspends on the
   refresh of ensureFreshToken or on fetchChatters. *)
tickAllFrom(ss, h, p, t) ==
    LET i == NextPos(ss, h, p) IN
    IF i = 0 THEN [h |-> h, f |-> IdleRound]
    ELSE LET o == ss[i]
             rf == NeedsRefresh(h[o], t) IN
         [h |-> [h EXCEPT ![o].lastPollAt = t],
          f |-> [pc |-> IF rf THEN "ensureFresh" ELSE "fetchChatters",
                 pos |-> i, a |-> o, ts |-> t,
                 nfresh |-> IF rf THEN 1 ELSE 0, n401 |-> 0]]

(* Mutant: the catch block also drops the presence set. *)
catchTick_DropsPresence(a, err) ==
    IF err.status = 401 /\ Truthy(a.refreshToken)
    THEN [a |-> a, pc |-> "refresh401", threw |-> FALSE]
    ELSE [a |-> [a EXCEPT !.lastError = err.msg, !.current = {}],
          pc |-> "end", threw |-> FALSE]

(* Mutant: the catch block rethrows what the 401 handler does not take. *)
catchTick_Rethrows(a, err) ==
    IF err.status = 401 /\ Truthy(a.refreshToken)
    THEN [a |-> a, pc |-> "refresh401", threw |-> FALSE]
    ELSE [a |-> [a EXCEPT !.lastError = err.msg], pc |-> "end", threw |-> TRUE]

(* The catch block of tickOne. *)
catchTick(a, err) ==
    IF err.status = 401 /\ Truthy(a.refreshToken)
    THEN [a |-> a, pc |-> "refresh401", threw |-> FALSE]
    ELSE [a |-> [a EXCEPT !.lastError = err.msg], pc |-> "end", threw |-> FALSE]

(* Mutant: the 401 handler tries the refresh again when it fails. *)
catchRefresh_Retries(a, e2) ==
    [a |-> a, pc |-> "refresh401", threw |-> FALSE]

(* The inner catch block, around the refresh of the 401 handler. *)
catchRefresh(a, e2) ==
    [a |-> [a EXCEPT !.lastError = e2.msg], pc |-> "end", threw |-> FALSE]

(* Mutant: every member of the snapshot counts as joined. *)
Joined_WholeSnapshot(next, cur) == next

Joined(next, cur) == next \ cur

(* Mutant: nobody is taken to have left. *)
Left_Nobody(next, cur) == {}

Left(next, cur) == cur \ next

(* Mutant: the tick enqueues everybody in its diff. *)
Enqueued_WithLeaves(jo, lo) == jo \o lo

(* The list the tick passes to enricher.enqueue. *)
Enqueued(jo, lo) == jo

(* Which of several equally recent open rows closeSession takes is up to
   the store. *)
Picks(tbl) ==
    IF \E i, j \in DOMAIN tbl :
          /\ i # j
          /\ tbl[i].left_at = NoTime /\ tbl[j].left_at = NoTime
          /\ tbl[i].username = tbl[j].username
          /\ tbl[i].channel_login = tbl[j].channel_login
          /\ tbl[i].joined_at = tbl[j].joined_at
    THEN {"low", "high"} ELSE {"low"}

IdleReq == [pc |-> "idle", a |-> 0, ch |-> NULL]

ObjIds == 1..MaxObjs

(* The tenant objects that the sessions map, a suspended tickOne or a
   suspended request handler still holds. *)
Referenced(ss, rd, rq) ==
    {ss[i] : i \in DOMAIN ss} \cup {rd[r].a : r \in Rounds} \cup {rq[q].a : q \in Reqs}

(* An object that nothing holds any more is gone: its slot reads as a fresh
   newSessionAuth(), which is what the next allocation puts there. *)
Collect(h, ss, rd, rq) ==
    [o \in ObjIds |-> IF o \in Referenced(ss, rd, rq) THEN h[o] ELSE newSessionAuth]

(* tickOne has settled with result res (of a catch block): either it goes on
   to the refresh of the 401 handler, or it returns and tickAll resumes; an
   exception that escapes tickOne rejects tickAll, which ends the round. *)
Settle(r, h, res, err, op) ==
    LET f == round[r]
        o == f.a
        h2 == [h EXCEPT ![o] = res.a] IN
    IF res.pc = "refresh401"
    THEN LET f2 == [f EXCEPT !.pc = "refresh401", !.n401 = @ + 1] IN
         /\ auth' = h2
         /\ round' = [round EXCEPT ![r] = f2]
         /\ last' = LastTick("caught401", f2, err.msg, auth[o].current, {})
    ELSE LET s == IF res.threw THEN [h |-> h2, f |-> IdleRound]
                  ELSE tickAllFrom(sessions, h2, f.pos, now)
             rd == [round EXCEPT ![r] = s.f] IN
         /\ auth' = Collect(s.h, sessions, rd, req)
         /\ round' = rd
         /\ last' = LastTick(IF res.threw THEN "tickThrew" ELSE op,
                             f, err.msg, auth[o].current, {})

(* setInterval / setTimeout: a new tickAll starts. *)
TimerFire(r) ==
    LET s == tickAllFrom(sessions, auth, 0, now) IN
    /\ round[r].pc = "idle"
    /\ s.f.pc # "idle"
    /\ auth' = s.h
    /\ round' = [round EXCEPT ![r] = s.f]
    /\ last' = LastOf("timer", s.f.a)
    /\ UNCHANGED <<sessions, events, sessTable, saved, queue, cfgToken, now, req>>
    /\ UNCHANGED <<running, drains, profiles>>

(* setInterval / setTimeout: a tickAll in which every tenant returns at the
   precondition of tickOne; the round ends in the slice it started in. *)
TimerIdle(r) ==
    LET s == tickAllFrom(sessions, auth, 0, now) IN
    /\ round[r].pc = "idle"
    /\ s.f.pc = "idle"
    /\ auth' = s.h
    /\ round' = [round EXCEPT ![r] = s.f]
    /\ last' = LastOf("timerIdle", 0)
    /\ UNCHANGED <<sessions, events, sessTable, saved, queue, cfgToken, now, req>>
    /\ UNCHANGED <<running, drains, profiles>>

(* The refresh awaited by ensureFreshToken returns a response. *)
EnsureFreshOk(r, resp, persistOk) ==
    LET f == round[r]
        o == f.a
        a1 == ApplyRefresh(auth[o], resp, now)
        h1 == [auth EXCEPT ![o] = a1] IN
    /\ f.pc = "ensureFresh"
    /\ IF persistOk
       THEN /\ auth' = h1
            /\ saved' = persistAuth(sessions, h1)
            /\ round' = [round EXCEPT ![r] = [f EXCEPT !.pc = "fetchChatters"]]
            /\ last' = LastTick("ensureFreshOk", f, NULL, auth[o].current, {})
       ELSE /\ Settle(r, h1, catchTick(a1, ErrFs), ErrFs, "tickErr")
            /\ UNCHANGED saved
    /\ UNCHANGED <<sessions, events, sessTable, queue, cfgToken, now, req>>
    /\ UNCHANGED <<running, drains, profiles>>

(* The refresh awaited by ensureFreshToken fails. *)
EnsureFreshErr(r, err) ==
    /\ round[r].pc = "ensureFresh"
    /\ Settle(r, auth, catchTick(auth[round[r].a], err), err, "tickErr")
    /\ UNCHANGED <<sessions, events, sessTable, saved, queue, cfgToken, now, req>>
    /\ UNCHANGED <<running, drains, profiles>>

(* fetchChatters returns a snapshot and every store statement succeeds:
   diff, store writes, enqueue, commit. *)
FetchOk(r, raw, cap) ==
    LET f == round[r]
        o == f.a
        a == auth[o]
        next == fetchChatters(raw)
        joined == Joined(next, a.current)
        left == Left(next, a.current) IN
    /\ f.pc = "fetchChatters"
    /\ Len(events) + Cardinality(joined) + Cardinality(left) <= cap
    /\ \E jo \in Perms(joined), lo \in Perms(left), pick \in Picks(sessTable) :
         LET stmts == TickStmts(jo, lo)
             st == RunStmts([events |-> events, sessions |-> sessTable],
                            stmts, Len(stmts), f.ts, a.broadcasterLogin, pick)
             a1 == [a EXCEPT !.current = next, !.lastError = NULL]
             s == tickAllFrom(sessions, [auth EXCEPT ![o] = a1], f.pos, now)
             rd == [round EXCEPT ![r] = s.f] IN
         /\ events' = st.events
         /\ sessTable' = st.sessions
         /\ IF joined # {} \/ left # {}
            THEN /\ cfgToken' = a.token
                 /\ queue' = enqueue(queue, Enqueued(jo, lo))
            ELSE UNCHANGED <<cfgToken, queue>>
         /\ auth' = Collect(s.h, sessions, rd, req)
         /\ round' = rd
         /\ last' = LastTick("tickOk", f, NULL, a.current, next)
    /\ UNCHANGED <<sessions, saved, now, req>>
    /\ UNCHANGED <<running, drains, profiles>>

(* fetchChatters returns a snapshot and the store throws part-way: it runs
   its statements one by one with no transaction, n of them succeed and the
   next one throws. *)
FetchStoreErr(r, raw, cap) ==
    LET f == round[r]
        o == f.a
        a == auth[o]
        next == fetchChatters(raw)
        joined == Joined(next, a.current)
        left == Left(next, a.current) IN
    /\ f.pc = "fetchChatters"
    /\ Len(events) + Cardinality(joined) + Cardinality(left) <= cap
    /\ \E jo \in Perms(joined), lo \in Perms(left), pick \in Picks(sessTable) :
         LET stmts == TickStmts(jo, lo) IN
         \E n \in 0..(Len(stmts) - 1) :
           LET st == RunStmts([events |-> events, sessions |-> sessTable],
                              stmts, n, f.ts, a.broadcasterLogin, pick) IN
           /\ events' = st.events
           /\ sessTable' = st.sessions
           /\ Settle(r, auth, catchTick(a, ErrDb), ErrDb, "tickErr")
    /\ UNCHANGED <<sessions, saved, queue, cfgToken, now, req>>
    /\ UNCHANGED <<running, drains, profiles>>

(* fetchChatters fails. *)
FetchErr(r, err) ==
    /\ round[r].pc = "fetchChatters"
    /\ Settle(r, auth, catchTick(auth[round[r].a], err), err, "tickErr")
    /\ UNCHANGED <<sessions, events, sessTable, saved, queue, cfgToken, now, req>>
    /\ UNCHANGED <<running, drains, profiles>>

(* The refresh of the 401 handler returns a response. *)
Refresh401Ok(r, resp, persistOk) ==
    LET f == round[r]
        o == f.a
        a1 == ApplyRefresh(auth[o], resp, now)
        h1 == [auth EXCEPT ![o] = a1] IN
    /\ f.pc = "refresh401"
    /\ IF persistOk
       THEN LET s == tickAllFrom(sessions, h1, f.pos, now)
                rd == [round EXCEPT ![r] = s.f] IN
            /\ auth' = Collect(s.h, sessions, rd, req)
            /\ saved' = persistAuth(sessions, h1)
            /\ round' = rd
            /\ last' = LastTick("tickRefreshed", f, NULL, auth[o].current, {})
       ELSE /\ Settle(r, h1, catchRefresh(a1, ErrFs), ErrFs, "tickRefreshErr")
            /\ UNCHANGED saved
    /\ UNCHANGED <<sessions, events, sessTable, queue, cfgToken, now, req>>
    /\ UNCHANGED <<running, drains, profiles>>

(* The refresh of the 401 handler fails. *)
Refresh401Err(r, e2) ==
    /\ round[r].pc = "refresh401"
    /\ Settle(r, auth, catchRefresh(auth[round[r].a], e2), e2, "tickRefreshErr")
    /\ UNCHANGED <<sessions, events, sessTable, saved, queue, cfgToken, now, req>>
    /\ UNCHANGED <<running, drains, profiles>>

----------------------------------------------------------------------------
(* HTTP handlers that write tenant state *)

FreeObjs == ObjIds \ Referenced(sessions, round, req)

Alloc == CHOOSE o \in FreeObjs : \A p \in FreeObjs : o <= p

ModeratorIdOf(token) == "mod"

(* getSessionAuth for a request that carries no known tp_sid cookie. *)
NewSession(maxTenants) ==
    /\ Len(sessions) < maxTenants
    /\ FreeObjs # {}
    /\ sessions' = Append(sessions, Alloc)
    /\ auth' = [auth EXCEPT ![Alloc] = newSessionAuth]
    /\ last' = LastOf("newSession", Alloc)
    /\ UNCHANGED <<events, sessTable, saved, queue, cfgToken, now, round, req>>
    /\ UNCHANGED <<running, drains, profiles>>

(* GET /auth/callback, up to the token exchange. *)
CallbackBegin(q, i, ch) ==
    /\ req[q].pc = "idle"
    /\ i \in DOMAIN sessions
    /\ req' = [req EXCEPT ![q] = [pc |-> "exchange", a |-> sessions[i], ch |-> ch]]
    /\ last' = LastOf("callbackBegin", sessions[i])
    /\ UNCHANGED <<sessions, auth, events, sessTable, saved, queue, cfgToken, now, round>>
    /\ UNCHANGED <<running, drains, profiles>>

ExchangeOk(q, tokenData) ==
    LET o == req[q].a IN
    /\ req[q].pc = "exchange"
    /\ auth' = [auth EXCEPT ![o] =
                  [@ EXCEPT !.token = tokenData.access_token,
                            !.refreshToken = OrElse(tokenData.refresh_token, NULL),
                            !.tokenScopes = OrElse(tokenData.scope, EmptyScopes),
                            !.tokenExpiresAt = now + tokenData.expires_in * MsPerSec]]
    /\ req' = [req EXCEPT ![q].pc = "fetchMe"]
    /\ last' = LastOf("exchangeOk", o)
    /\ UNCHANGED <<sessions, events, sessTable, saved, queue, cfgToken, now, round>>
    /\ UNCHANGED <<running, drains, profiles>>

(* Any awaited call of a handler throws, or the lookup finds nothing: the
   handler answers with an error and writes nothing more. *)
ReqFail(q) ==
    /\ req[q].pc # "idle"
    /\ req' = [req EXCEPT ![q] = IdleReq]
    /\ auth' = Collect(auth, sessions, round, [req EXCEPT ![q] = IdleReq])
    /\ last' = LastOf("reqFail", req[q].a)
    /\ UNCHANGED <<sessions, events, sessTable, saved, queue, cfgToken, now, round>>
    /\ UNCHANGED <<running, drains, profiles>>

MeOk(q) ==
    LET o == req[q].a IN
    /\ req[q].pc = "fetchMe"
    /\ auth' = [auth EXCEPT ![o] =
                  [@ EXCEPT !.moderatorId = ModeratorIdOf(auth[o].token),
                            !.meLogin = ModeratorIdOf(auth[o].token)]]
    /\ req' = [req EXCEPT ![q].pc = "fetchBroadcaster"]
    /\ last' = LastOf("meOk", o)
    /\ UNCHANGED <<sessions, events, sessTable, saved, queue, cfgToken, now, round>>
    /\ UNCHANGED <<running, drains, profiles>>

(* The broadcaster lookup of /auth/callback or /track/set returns a user. *)
SetChannel(q, persistOk) ==
    LET o == req[q].a
        login == req[q].ch
        h1 == [auth EXCEPT ![o] =
                  [@ EXCEPT !.broadcasterId = BroadcasterIdOf(login),
                            !.broadcasterLogin = login,
                            !.current = getOpenSet(sessTable, login)]] IN
    /\ req[q].pc \in {"fetchBroadcaster", "trackSet"}
    /\ auth' = Collect(h1, sessions, round, [req EXCEPT ![q] = IdleReq])
    /\ saved' = IF persistOk THEN persistAuth(sessions, h1) ELSE saved
    /\ req' = [req EXCEPT ![q] = IdleReq]
    /\ last' = LastOf("setChannel", o)
    /\ UNCHANGED <<sessions, events, sessTable, queue, cfgToken, now, round>>
    /\ UNCHANGED <<running, drains, profiles>>

(* GET /track/set, up to the broadcaster lookup. *)
TrackSetBegin(q, i, ch) ==
    /\ req[q].pc = "idle"
    /\ i \in DOMAIN sessions
    /\ Truthy(auth[sessions[i]].token)
    /\ req' = [req EXCEPT ![q] = [pc |-> "trackSet", a |-> sessions[i], ch |-> ch]]
    /\ last' = LastOf("trackSetBegin", sessions[i])
    /\ UNCHANGED <<sessions, auth, events, sessTable, saved, queue, cfgToken, now, round>>
    /\ UNCHANGED <<running, drains, profiles>>

(* Mutant: logout resets the credentials of the tenant object in place and
   forgets the presence set. *)
Logout_KeepsPresence(i, persistOk) ==
    LET o == sessions[i]
        h1 == [auth EXCEPT ![o] = [newSessionAuth EXCEPT !.current = auth[o].current]] IN
    /\ i \in DOMAIN sessions
    /\ auth' = h1
    /\ saved' = IF persistOk THEN persistAuth(sessions, h1) ELSE saved
    /\ last' = LastOf(IF persistOk THEN "logout" ELSE "logoutErr", o)
    /\ UNCHANGED <<sessions, events, sessTable, queue, cfgToken, now, round, req>>
    /\ UNCHANGED <<running, drains, profiles>>

(* POST /auth/logout *)
Logout(i, persistOk) ==
    LET ss == [sessions EXCEPT ![i] = Alloc]
        h1 == [auth EXCEPT ![Alloc] = newSessionAuth] IN
    /\ i \in DOMAIN sessions
    /\ FreeObjs # {}
    /\ sessions' = ss
    /\ auth' = Collect(h1, ss, round, req)
    /\ saved' = IF persistOk THEN persistAuth(ss, h1) ELSE saved
    /\ last' = LastOf(IF persistOk THEN "logout" ELSE "logoutErr", Alloc)
    /\ UNCHANGED <<events, sessTable, queue, cfgToken, now, round, req>>
    /\ UNCHANGED <<running, drains, profiles>>

----------------------------------------------------------------------------
(* The enricher: enqueue and drain *)

Min(x, y) == IF x <= y THEN x ELSE y

(* Mutant: slice takes the newest names. *)
Take_Newest(s, n) == SubSeq(s, Len(s) - Min(n, Len(s)) + 1, Len(s))

Take(s, n) == SubSeq(s, 1, Min(n, Len(s)))
Drop(s, n) == SubSeq(s, Min(n, Len(s)) + 1, Len(s))

(* What an enricher slice did: the names passed to enqueue, or the drain
   slot with its batch, the users the lookup returned, the follower results
   so far, the user handled and the access token of the call in flight;
   before: the names of the enqueue that ran right before it, if one did. *)
LastEnr(op, d, xs, f, before) ==
    [op |-> op, a |-> 0, d |-> d, xs |-> xs, batch |-> f.batch, users |-> f.users,
     fcs |-> f.fcs, i |-> f.i, tok |-> f.tok, before |-> before]

(* Mutant: enqueue skips the names of the batch in flight. *)
EnqueueCall_SkipsInFlight(xs) ==
    LET flying == UNION {Range(drains[d].batch) : d \in DrainSlots}
        fresh(x) == ~(Truthy(x) /\ ToLower(x) \in flying) IN
    /\ queue' = enqueue(queue, SelectSeq(xs, fresh))
    /\ last' = LastEnr("enqueue", 0, xs, IdleDrain, <<>>)
    /\ UNCHANGED <<sessions, auth, events, sessTable, saved, cfgToken, now, round, req>>
    /\ UNCHANGED <<running, drains, profiles>>

(* enricher.enqueue(xs) *)
EnqueueCall(xs) ==
    /\ queue' = enqueue(queue, xs)
    /\ last' = LastEnr("enqueue", 0, xs, IdleDrain, <<>>)
    /\ UNCHANGED <<sessions, auth, events, sessTable, saved, cfgToken, now, round, req>>
    /\ UNCHANGED <<running, drains, profiles>>

(* Mutant: drain looks at the pending set only. *)
DrainReturnsAtOnce_IgnoresRunning(run, q) == q = <<>>

(* The first line of drain. *)
DrainReturnsAtOnce(run, q) == run \/ q = <<>>

(* setInterval: enricher.tick() calls drain, which returns at once or takes
   its batch off the pending set and suspends on the profile lookup, called
   with the access token cfg holds at that time. *)
DrainTick(d) ==
    /\ drains[d].pc = "idle"
    /\ IF DrainReturnsAtOnce(running, queue)
       THEN /\ last' = LastEnr("drainSkip", d, <<>>, IdleDrain, <<>>)
            /\ UNCHANGED <<queue, running, drains>>
       ELSE LET f == [IdleDrain EXCEPT !.pc = "fetchUsers",
                                       !.batch = Take(queue, BatchSize),
                                       !.tok = cfgToken] IN
            /\ running' = TRUE
            /\ queue' = Drop(queue, BatchSize)
            /\ drains' = [drains EXCEPT ![d] = f]
            /\ last' = LastEnr("drainStart", d, <<>>, f,
                               IF last.op = "enqueue" THEN last.xs ELSE <<>>)
    /\ UNCHANGED <<sessions, auth, events, sessTable, saved, cfgToken, now, round, req>>
    /\ UNCHANGED profiles

(* Mutant: the flag is released only when the drain did not throw. *)
finallyRunning_OnSuccessOnly(threw) == threw

(* The finally block of drain. *)
finallyRunning(threw) == FALSE

(* drain returns ("drainDone") or throws out of the call named by op: the
   frame is gone and finally has run. *)
DrainEnd(d, f, op) ==
    /\ running' = finallyRunning(op # "drainDone")
    /\ drains' = [drains EXCEPT ![d] = IdleDrain]
    /\ last' = LastEnr(op, d, <<>>, f, <<>>)

UserOf(login) == [login |-> login, id |-> login]

UsersOf(batch, unknown) ==
    LET known(x) == x \notin unknown
        found == SelectSeq(batch, known) IN
    [k \in DOMAIN found |-> UserOf(found[k])]

(* fetchUsersByLogins returns the users the provider knows, in the order of
   the batch. *)
UsersOk(d, unknown) ==
    LET f == [drains[d] EXCEPT !.users = UsersOf(drains[d].batch, unknown),
                               !.pc = "fetchFollowers", !.i = 1,
                               !.tok = cfgToken] IN
    /\ drains[d].pc = "fetchUsers"
    /\ IF f.users = <<>>
       THEN DrainEnd(d, f, "drainDone")
       ELSE /\ drains' = [drains EXCEPT ![d] = f]
            /\ last' = LastEnr("usersOk", d, <<>>, f, <<>>)
            /\ UNCHANGED running
    /\ UNCHANGED <<sessions, auth, events, sessTable, saved, cfgToken, now, round, req>>
    /\ UNCHANGED <<queue, profiles>>

(* Mutant: a failed lookup puts its batch back. *)
UsersErr_Requeues(d) ==
    /\ drains[d].pc = "fetchUsers"
    /\ DrainEnd(d, drains[d], "lookupThrew")
    /\ queue' = enqueue(queue, drains[d].batch)
    /\ UNCHANGED <<sessions, auth, events, sessTable, saved, cfgToken, now, round, req>>
    /\ UNCHANGED profiles

(* fetchUsersByLogins throws. *)
UsersErr(d) ==
    /\ drains[d].pc = "fetchUsers"
    /\ DrainEnd(d, drains[d], "lookupThrew")
    /\ UNCHANGED <<sessions, auth, events, sessTable, saved, cfgToken, now, round, req>>
    /\ UNCHANGED <<queue, profiles>>

FollowerFound == [ok |-> TRUE, total |-> 7]

FollowerResults ==
    {[ok |-> TRUE, total |-> 7], [ok |-> TRUE, total |-> NoTime], [ok |-> FALSE, total |-> NoTime]}

(* Mutant: a follower lookup that throws ends the drain. *)
catchFollower_Rethrows(res) == [followerCount |-> NoTime, threw |-> TRUE]

(* The catch block around fetchFollowerCount. *)
catchFollower(res) == [followerCount |-> NoTime, threw |-> FALSE]

ProfileOf(u, followerCount, t) ==
    [username |-> ToLower(OrElse(u.login, "")), user_id |-> OrElse(u.id, NULL),
     follower_count |-> followerCount, updated_at |-> t]

(* store.saveUserProfile: INSERT ... ON CONFLICT(username) DO UPDATE *)
saveUserProfile(tbl, profile) ==
    {p \in tbl : p.username # profile.username} \cup {profile}

(* fetchFollowerCount for the user at hand returns or throws, the profile is
   upserted (or the store throws), and the loop goes on to the next user or
   ends the drain. *)
FollowerDone(d, res, saveOk) ==
    LET f == drains[d]
        u == f.users[f.i]
        c == IF res.ok THEN [followerCount |-> res.total, threw |-> FALSE]
             ELSE catchFollower(res)
        f1 == [f EXCEPT !.fcs = Append(@, res)] IN
    /\ f.pc = "fetchFollowers"
    /\ IF c.threw \/ ~saveOk
       THEN /\ DrainEnd(d, f1, IF c.threw THEN "followerThrew" ELSE "saveThrew")
            /\ UNCHANGED profiles
       ELSE /\ profiles' = saveUserProfile(profiles, ProfileOf(u, c.followerCount, now))
            /\ IF f.i = Len(f.users)
               THEN DrainEnd(d, f1, "drainDone")
               ELSE /\ drains' = [drains EXCEPT ![d] = [f1 EXCEPT !.i = @ + 1,
                                                                 !.tok = cfgToken]]
                    /\ last' = LastEnr("userSaved", d, <<>>, f1, <<>>)
                    /\ UNCHANGED running
    /\ UNCHANGED <<sessions, auth, events, sessTable, saved, cfgToken, now, round, req>>
    /\ UNCHANGED queue

----------------------------------------------------------------------------
(* Process start *)

(* Mutant: a restored tenant starts with an empty presence set. *)
bootAuth_EmptyPresence(c, tbl) ==
    [newSessionAuth EXCEPT
        !.token = OrElse(c.token, NULL),
        !.refreshToken = OrElse(c.refreshToken, NULL),
        !.tokenExpiresAt = IF TruthyNum(c.tokenExpiresAt) THEN c.tokenExpiresAt ELSE NoTime,
        !.moderatorId = OrElse(c.moderatorId, NULL),
        !.meLogin = OrElse(c.meLogin, NULL),
        !.tokenScopes = OrElse(c.tokenScopes, EmptyScopes),
        !.broadcasterId = OrElse(c.broadcasterId, NULL),
        !.broadcasterLogin = OrElse(c.broadcasterLogin, NULL)]

bootAuth(c, tbl) ==
    [newSessionAuth EXCEPT
        !.token = OrElse(c.token, NULL),
        !.refreshToken = OrElse(c.refreshToken, NULL),
        !.tokenExpiresAt = IF TruthyNum(c.tokenExpiresAt) THEN c.tokenExpiresAt ELSE NoTime,
        !.moderatorId = OrElse(c.moderatorId, NULL),
        !.meLogin = OrElse(c.meLogin, NULL),
        !.tokenScopes = OrElse(c.tokenScopes, EmptyScopes),
        !.broadcasterId = OrElse(c.broadcasterId, NULL),
        !.broadcasterLogin = OrElse(c.broadcasterLogin, NULL),
        !.current = getOpenSet(tbl, OrElse(c.broadcasterLogin, "__none__"))]

bootAuthFromDisk(sv, tbl) ==
    [o \in ObjIds |-> IF o \in DOMAIN sv THEN bootAuth(sv[o], tbl) ELSE newSessionAuth]

(* The process stops (every in-flight call is lost) and starts again. *)
Restart ==
    /\ sessions' = [i \in DOMAIN saved |-> i]
    /\ auth' = bootAuthFromDisk(saved, sessTable)
    /\ round' = [r \in Rounds |-> IdleRound]
    /\ req' = [q \in Reqs |-> IdleReq]
    /\ queue' = <<>>
    /\ running' = FALSE
    /\ drains' = [d \in DrainSlots |-> IdleDrain]
    /\ cfgToken' = NULL
    /\ last' = LastOf("restart", 0)
    /\ UNCHANGED <<events, sessTable, saved, now, profiles>>

(* Date.now() advances. *)
ClockStep(t) ==
    /\ t > now
    /\ now' = t
    /\ last' = LastOf("clock", 0)
    /\ UNCHANGED <<sessions, auth, events, sessTable, saved, queue, cfgToken, round, req>>
    /\ UNCHANGED <<running, drains, profiles>>

(* Date.now() reads the wall clock, which may also be set back. A tick
   reads it once, when it starts, so it suffices to set it between ticks. *)
ClockSet(t) ==
    /\ t # now
    /\ \A r \in Rounds : round[r].pc = "idle"
    /\ now' = t
    /\ last' = LastOf("clock", 0)
    /\ UNCHANGED <<sessions, auth, events, sessTable, saved, queue, cfgToken, round, req>>
    /\ UNCHANGED <<running, drains, profiles>>

(* The process starts at time t0 on credential file sv and an empty store. *)
Boot(sv, t0) ==
    /\ sessions = [i \in DOMAIN sv |-> i]
    /\ auth = bootAuthFromDisk(sv, <<>>)
    /\ events = <<>>
    /\ sessTable = <<>>
    /\ saved = sv
    /\ queue = <<>>
    /\ running = FALSE
    /\ drains = [d \in DrainSlots |-> IdleDrain]
    /\ profiles = {}
    /\ cfgToken = NULL
    /\ now = t0
    /\ round = [r \in Rounds |-> IdleRound]
    /\ req = [q \in Reqs |-> IdleReq]
    /\ last = LastOf("init", 0)

(* Credentials of a tenant onboarded at time 0 for channel ch. *)
Onboarded(ch, rt) ==
    [token |-> "t1", refreshToken |-> rt, tokenExpiresAt |-> 61 * MsPerSec,
     moderatorId |-> ModeratorIdOf("t1"), meLogin |-> ModeratorIdOf("t1"),
     tokenScopes |-> "sc", broadcasterId |-> BroadcasterIdOf(ch),
     broadcasterLogin |-> ch]

(* Reconciliation: the process starts on a credential file of one or two
   onboarded tenants with static tokens (no refresh token); one tickAll at a
   time; provider and store failures; restarts. *)
Times == {1000, 2500}

StaticFiles ==
    {<<Onboarded("chanx", NULL)>>}
    \cup {<<Onboarded("chanx", NULL), Onboarded(ch, NULL)>> : ch \in Channels}

Init == \E sv \in StaticFiles : Boot(sv, 1000)

Next ==
    \/ TimerFire(1)
    \/ \E raw \in SUBSET RawLogins : FetchOk(1, raw, MaxEvents)
    \/ \E raw \in SUBSET RawLogins : FetchStoreErr(1, raw, MaxEvents)
    \/ \E e \in ProviderErrors : FetchErr(1, e)
    \/ Restart
    \/ \E t \in Times : ClockStep(t)

Spec == Init /\ [][Next]_vars

(* Token lifecycle inside the tick: tenants with a refresh token, one user. *)
TimesAuth == {0, 1000}

RefreshFiles ==
    {<<Onboarded("chanx", "r1")>>, <<Onboarded("chanx", "r1"), Onboarded("chany", NULL)>>}

InitAuth == \E sv \in RefreshFiles : Boot(sv, 0)

NextAuth ==
    \/ TimerFire(1)
    \/ \E resp \in RefreshResponses, ok \in BOOLEAN : EnsureFreshOk(1, resp, ok)
    \/ \E e \in ProviderErrors : EnsureFreshErr(1, e)
    \/ \E raw \in SUBSET {"Alice"} : FetchOk(1, raw, MaxEvents)
    \/ \E raw \in SUBSET {"Alice"} : FetchStoreErr(1, raw, MaxEvents)
    \/ \E e \in ProviderErrors : FetchErr(1, e)
    \/ \E resp \in RefreshResponses, ok \in BOOLEAN : Refresh401Ok(1, resp, ok)
    \/ \E e \in ProviderErrors : Refresh401Err(1, e)
    \/ \E t \in TimesAuth : ClockStep(t)

SpecAuth == InitAuth /\ [][NextAuth]_vars

(* Snapshot sequences: one tenant with a static token polls one channel,
   every call succeeds, the process starts at time 0 and between two ticks
   the wall clock may be set to any of the later times, forwards or
   backwards. *)
TimesSeq == {1000, 3000, 4000, 4500}

SeqLogins == {"Alice", "bob "}

InitSeq == Boot(<<Onboarded("chanx", NULL)>>, 0)

NextSeq ==
    \/ TimerFire(1)
    \/ \E raw \in SUBSET SeqLogins : FetchOk(1, raw, MaxEventsSeq)
    \/ \E t \in TimesSeq : ClockSet(t)

SpecSeq == InitSeq /\ [][NextSeq]_vars

(* Timers and requests: the process starts with no credential file; a
   browser signs in, switches channel and logs out while up to two tickAll
   rounds are in flight (the poll interval firing during a round, or next to
   the start-up timeout). *)
ConcLogins == {"Alice"}

StaticResponses == {x \in ExchangeResponses : x.refresh_token = NULL}

InitConc == Boot(<<>>, 1000)

NextConc ==
    \/ \E r \in Rounds : TimerFire(r)
    \/ \E r \in Rounds, raw \in SUBSET ConcLogins : FetchOk(r, raw, MaxEventsConc)
    \/ \E r \in Rounds : FetchErr(r, ErrNet)
    \/ NewSession(MaxTenants)
    \/ \E q \in Reqs, i \in 1..MaxTenants, ch \in Channels : CallbackBegin(q, i, ch)
    \/ \E q \in Reqs, tokenData \in StaticResponses : ExchangeOk(q, tokenData)
    \/ \E q \in Reqs : MeOk(q)
    \/ \E q \in Reqs : SetChannel(q, TRUE)
    \/ \E q \in Reqs : ReqFail(q)
    \/ \E q \in Reqs, i \in 1..MaxTenants, ch \in Channels : TrackSetBegin(q, i, ch)
    \/ \E i \in 1..MaxTenants : Logout(i, TRUE)

SpecConc == InitConc /\ [][NextConc]_vars

(* Onboarding and logout: the process starts on a credential file of two
   onboarded tenants; both may log out, the first one signs in again for its
   channel; the credential file may fail to be written at logout, the
   process may restart; one tickAll at a time, every fetch succeeds. *)
SignsIn == {1}

OnboardFile == <<Onboarded("chanx", NULL), Onboarded("chany", NULL)>>

InitOnboard == Boot(OnboardFile, 1000)

NextOnboard ==
    \/ TimerFire(1)
    \/ TimerIdle(1)
    \/ \E raw \in SUBSET ConcLogins : FetchOk(1, raw, MaxEventsConc)
    \/ \E q \in Reqs, i \in SignsIn : CallbackBegin(q, i, OnboardFile[i].broadcasterLogin)
    \/ \E q \in Reqs, tokenData \in StaticResponses : ExchangeOk(q, tokenData)
    \/ \E q \in Reqs : MeOk(q)
    \/ \E q \in Reqs : SetChannel(q, TRUE)
    \/ \E q \in Reqs : ReqFail(q)
    \/ \E i \in DOMAIN OnboardFile, ok \in BOOLEAN : Logout(i, ok)
    \/ Restart

SpecOnboard == InitOnboard /\ [][NextOnboard]_vars

----------------------------------------------------------------------------
(* The diff of a tick: one tenant with a static token polls one channel with
   three users, so that a snapshot can keep one user, lose one and gain one;
   the fetch may fail, the clock advances and the process restarts. *)

DiffLogins == {"Alice", "bob ", "carol"}
TimesDiff == {2000, 3000}

InitDiff == Boot(<<Onboarded("chanx", NULL)>>, 1000)

NextDiff ==
    \/ TimerFire(1)
    \/ \E raw \in SUBSET DiffLogins : FetchOk(1, raw, MaxEventsSeq)
    \/ FetchErr(1, ErrNet)
    \/ Restart
    \/ \E t \in TimesDiff : ClockStep(t)

SpecDiff == InitDiff /\ [][NextDiff]_vars

----------------------------------------------------------------------------
(* Token freshness: one tenant whose credential file has or lacks a refresh
   token and an expiry; the expiry is in the past, or its 60 s margin begins
   at time 1000; ticks start just before, at and after that time and after
   the expiry. *)

TimesFresh == {999, 1000, 1001, 61001}
ExpiriesFresh == {NoTime, 500, 61 * MsPerSec}

FreshFiles ==
    {<<[Onboarded("chanx", rt) EXCEPT !.tokenExpiresAt = exp]>> :
        rt \in {NULL, "r1"}, exp \in ExpiriesFresh}

InitFresh == \E sv \in FreshFiles : Boot(sv, 0)

NextFresh ==
    \/ TimerFire(1)
    \/ \E resp \in RefreshResponses, ok \in BOOLEAN : EnsureFreshOk(1, resp, ok)
    \/ \E e \in ProviderErrors : EnsureFreshErr(1, e)
    \/ \E raw \in SUBSET {"Alice"} : FetchOk(1, raw, MaxEvents)
    \/ FetchErr(1, ErrNet)
    \/ \E t \in TimesFresh : ClockStep(t)

SpecFresh == InitFresh /\ [][NextFresh]_vars

----------------------------------------------------------------------------
(* Refresh token rotation: one tenant with a refresh token; the token
   endpoint answers a refresh with access token t2 and a new refresh token,
   or with access token t3 and no refresh token; the refresh is issued by
   ensureFreshToken (the margin begins at time 1000) or by the 401 handler. *)

RotateResponses ==
    {[access_token |-> "t2", refresh_token |-> "r2", scope |-> "sc", expires_in |-> 61],
     [access_token |-> "t3", refresh_token |-> NULL, scope |-> NULL, expires_in |-> 61]}

TimesRotate == {1000, 62000}

InitRotate == Boot(<<Onboarded("chanx", "r1")>>, 0)

NextRotate ==
    \/ TimerFire(1)
    \/ \E resp \in RotateResponses, ok \in BOOLEAN : EnsureFreshOk(1, resp, ok)
    \/ \E e \in ProviderErrors : EnsureFreshErr(1, e)
    \/ \E raw \in SUBSET {"Alice"} : FetchOk(1, raw, MaxEvents)
    \/ \E e \in ProviderErrors : FetchErr(1, e)
    \/ \E resp \in RotateResponses, ok \in BOOLEAN : Refresh401Ok(1, resp, ok)
    \/ \E e \in ProviderErrors : Refresh401Err(1, e)
    \/ \E t \in TimesRotate : ClockStep(t)

SpecRotate == InitRotate /\ [][NextRotate]_vars

----------------------------------------------------------------------------
(* The enricher alone: names arrive in small lists of mixed case with empty
   entries; the provider does not know every name, and follower lookups and
   profile writes may fail. *)

SmallArgs == {<<"Alice", "ALICE">>, <<"bob", "", "alice">>, <<"carol", NULL>>}
Ghosts == {"carol"}

InitEnrich == Boot(<<Onboarded("chanx", NULL)>>, 1000)

NextEnrich ==
    \/ \E xs \in SmallArgs : EnqueueCall(xs)
    \/ \E d \in DrainSlots : DrainTick(d)
    \/ \E d \in DrainSlots, unknown \in SUBSET Ghosts : UsersOk(d, unknown)
    \/ \E d \in DrainSlots : UsersErr(d)
    \/ \E d \in DrainSlots, res \in FollowerResults, saveOk \in BOOLEAN :
           FollowerDone(d, res, saveOk)

SpecEnrich == InitEnrich /\ [][NextEnrich]_vars

----------------------------------------------------------------------------
(* The enricher over time: two names the provider knows; the drain timer
   keeps firing every 4 s, and every awaited lookup returns or throws. *)

LiveArgs == {<<"Alice", "ALICE">>, <<"bob", "", "alice">>}
LiveNames == {"alice", "bob"}
FollowerThrew == [ok |-> FALSE, total |-> NoTime]

DrainTimer == \E d \in DrainSlots : DrainTick(d)

LookupReturns ==
    \/ \E d \in DrainSlots : UsersOk(d, {})
    \/ \E d \in DrainSlots : UsersErr(d)
    \/ \E d \in DrainSlots, res \in {FollowerFound, FollowerThrew}, saveOk \in BOOLEAN :
           FollowerDone(d, res, saveOk)

NextEnrichLive ==
    \/ \E xs \in LiveArgs : EnqueueCall(xs)
    \/ DrainTimer
    \/ LookupReturns

SpecEnrichLive ==
    InitEnrich /\ [][NextEnrichLive]_vars /\ WF_vars(DrainTimer) /\ WF_vars(LookupReturns)

----------------------------------------------------------------------------
(* The token of the enricher: one tenant with a refresh token is polled, and
   the names its ticks enqueue are drained, while its token is refreshed
   (the margin begins at time 1000) or its browser logs out. *)

InitToken == Boot(<<Onboarded("chanx", "r1")>>, 0)

NextToken ==
    \/ TimerFire(1)
    \/ \E resp \in RotateResponses : EnsureFreshOk(1, resp, TRUE)
    \/ \E raw \in SUBSET ConcLogins : FetchOk(1, raw, MaxEvents)
    \/ ClockStep(1000)
    \/ Logout(1, TRUE)
    \/ DrainTimer
    \/ \E d \in DrainSlots : UsersOk(d, {})
    \/ \E d \in DrainSlots : UsersErr(d)
    \/ \E d \in DrainSlots : FollowerDone(d, FollowerFound, TRUE)

SpecToken == InitToken /\ [][NextToken]_vars

----------------------------------------------------------------------------
(* The enricher under a burst: more names than one batch holds arrive in one
   call while nothing is pending; lookups and profile writes succeed, the
   batched lookup may fail. *)

Burst == [k \in 1..BurstSize |-> ToString(k)]

NextBurst ==
    \/ queue = <<>> /\ EnqueueCall(Burst)
    \/ EnqueueCall(<<"Alice", "ALICE">>)
    \/ \E d \in DrainSlots : DrainTick(d)
    \/ \E d \in DrainSlots : UsersOk(d, {})
    \/ \E d \in DrainSlots : UsersErr(d)
    \/ \E d \in DrainSlots : FollowerDone(d, FollowerFound, TRUE)

SpecBurst == InitEnrich /\ [][NextBurst]_vars

----------------------------------------------------------------------------
(* The enricher under a steady load: ticks keep enqueueing more names than
   one batch holds, also while names are pending or in flight; the drain
   timer keeps firing every 4 s, and every awaited lookup returns or throws.
   The provider knows two of the names. *)

StarveArgs == {Burst, <<"Alice", "bob">>}
StarveKnown == {"1", "alice"}

StarveReturns ==
    \/ \E d \in DrainSlots : UsersOk(d, Range(drains[d].batch) \ StarveKnown)
    \/ \E d \in DrainSlots : UsersErr(d)
    \/ \E d \in DrainSlots : FollowerDone(d, FollowerFound, TRUE)

NextStarve ==
    \/ \E xs \in StarveArgs : EnqueueCall(xs)
    \/ DrainTimer
    \/ StarveReturns

SpecStarve ==
    InitEnrich /\ [][NextStarve]_vars /\ WF_vars(DrainTimer) /\ WF_vars(StarveReturns)

----------------------------------------------------------------------------
(* Properties of the reconciliation (Spec) *)

OpenCount(u, ch) == Cardinality(OpenRows(sessTable, u, ch))

(* C1: for one tenant, starting from an empty store and an empty presence
   set, after every tick that completes without error on snapshot Sk, the
   users with an open session for the channel are exactly the members of Sk,
   each with exactly one open session. *)
C1_OpenSessionsMatchSnapshot ==
    (Len(sessions) = 1 /\ last.op = "tickOk") =>
        \A u \in Users :
            OpenCount(u, auth[last.a].broadcasterLogin) = IF u \in last.next THEN 1 ELSE 0

(* C2: in every reachable state each (channel, username) pair has at most
   one session row with left_at = null. *)
C2_AtMostOneOpenSession ==
    \A ch \in Channels, u \in Users : OpenCount(u, ch) <= 1

(* C5: a tick whose fetched snapshot equals the tenant's presence set
   appends no event, opens or closes no session, adds nothing to the
   enrichment queue and leaves the presence set as it was. *)
C5_IdempotentTick ==
    [][(last'.op = "tickOk" /\ last'.next = auth[last'.a].current) =>
          /\ events' = events
          /\ sessTable' = sessTable
          /\ queue' = queue
          /\ auth'[last'.a].current = auth[last'.a].current]_vars

C5_Witness ==
    /\ last.op = "tickOk"
    /\ last.next = last.prev
    /\ last.next # {}
    /\ events # <<>>

----------------------------------------------------------------------------
(* Properties of the token lifecycle inside the tick (SpecAuth) *)

FailedOps == {"tickErr", "tickRefreshErr"}

(* C7: a tick that catches an error which a successful 401 refresh does not
   handle ends with that error in the tenant's lastError, and no slice of it
   changes the tenant's presence set. *)
C7_FailedTickKeepsPresence ==
    [][/\ last'.op \in FailedOps =>
            /\ auth'[last'.a].lastError = last'.err
            /\ auth'[last'.a].current = auth[last'.a].current
            /\ \A r \in Rounds :
                 (round[r].pc # "idle" /\ round[r].a = last'.a /\ round'[r] # round[r])
                     => round'[r].a # last'.a
       /\ last'.op \in {"caught401", "ensureFreshOk"} =>
            /\ auth'[last'.a].current = auth[last'.a].current
            /\ auth'[last'.a].lastError = auth[last'.a].lastError]_vars

C7_Witness ==
    /\ last.op = "tickRefreshErr"
    /\ auth[last.a].lastError = "network"
    /\ auth[last.a].current # {}

HandledOps == {"caught401", "tickRefreshed", "tickRefreshErr"}

(* C8 as claimed: in a tick in which a 401 is caught and the tenant has a
   refresh token, the number of refreshAccessToken calls issued during the
   tick is one. *)
C8_ExactlyOneRefreshCall ==
    last.op \in HandledOps => last.nfresh + last.n401 = 1

(* C8 as amended: in such a tick the 401 handler issues exactly one
   refreshAccessToken call, and ensureFreshToken has issued at most one
   before it: one or two calls in the tick. *)
C8_OneRefreshByTheHandler ==
    last.op \in HandledOps => (last.n401 = 1 /\ last.nfresh \in {0, 1})

C8_Witness ==
    /\ last.op = "tickRefreshed"
    /\ last.nfresh = 1
    /\ last.n401 = 1

StartsTick(r) ==
    /\ round'[r].pc # "idle"
    /\ round[r].pc = "idle" \/ round[r].pos # round'[r].pos

(* C9: a tick that catches a 401 and whose refresh then succeeds changes
   nothing but the credentials: starting it writes lastPollAt only, catching
   the 401 writes nothing, and the successful refresh replaces token,
   refresh token, scopes and expiry, rewrites the credential file, and
   leaves the presence set, lastError, identities, events, sessions and
   queue as they were. *)
C9_RefreshedTickChangesOnlyCredentials ==
    [][/\ last'.op = "tickRefreshed" =>
            LET o == last'.a IN
            /\ auth'[o] = [auth[o] EXCEPT !.token = auth'[o].token,
                                          !.refreshToken = auth'[o].refreshToken,
                                          !.tokenScopes = auth'[o].tokenScopes,
                                          !.tokenExpiresAt = auth'[o].tokenExpiresAt]
            /\ auth'[o].token \in {"t1", "t2"}
            /\ events' = events /\ sessTable' = sessTable /\ queue' = queue
            /\ saved' = [i \in DOMAIN sessions |-> Creds(auth'[sessions[i]])]
       /\ last'.op = "caught401" =>
            /\ auth' = auth /\ saved' = saved
            /\ events' = events /\ sessTable' = sessTable /\ queue' = queue
       /\ \A r \in Rounds : StartsTick(r) =>
            auth'[round'[r].a] = [auth[round'[r].a] EXCEPT !.lastPollAt = round'[r].ts]]_vars

C9_Witness ==
    /\ last.op = "tickRefreshed"
    /\ auth[last.a].lastError # NULL
    /\ auth[last.a].current # {}
    /\ auth[last.a].token = "t2"
    /\ saved[1].token = "t2"

(* C10: no exception escapes tickOne; when a tenant's tick fails, tickAll
   goes on at once with the next tenant of the round that passes the
   precondition, and the failing tick changes no other tenant's presence set
   or lastError. *)
C10_FailureIsLocal ==
    [][last'.op \in FailedOps \cup {"tickThrew"} =>
          /\ last'.op # "tickThrew"
          /\ \A o \in ObjIds \ {last'.a} :
               /\ auth'[o].current = auth[o].current
               /\ auth'[o].lastError = auth[o].lastError
          /\ \A r \in Rounds :
               (round[r].pc # "idle" /\ round[r].a = last'.a /\ round'[r] # round[r]) =>
                 LET later == {i \in DOMAIN sessions :
                                  i > round[r].pos /\ CanTick(auth[sessions[i]])} IN
                 IF later = {} THEN round'[r].pc = "idle"
                 ELSE /\ round'[r].pc # "idle"
                      /\ round'[r].pos \in later
                      /\ \A i \in later : round'[r].pos <= i
                      /\ round'[r].a = sessions[round'[r].pos]]_vars

C10_Witness ==
    /\ last.op \in FailedOps
    /\ Len(sessions) = 2
    /\ last.a = sessions[1]
    /\ round[1].pc = "fetchChatters"
    /\ round[1].a = sessions[2]

----------------------------------------------------------------------------
(* Properties of snapshot sequences (SpecSeq) *)

Ev(u, type, ts) ==
    [username |-> u, event_type |-> type, ts |-> ts, channel_login |-> "chanx"]

Row(u, joinedAt, leftAt, dur) ==
    [username |-> u, joined_at |-> joinedAt, left_at |-> leftAt,
     duration_sec |-> dur, channel_login |-> "chanx"]

(* Snapshots {}, {alice, bob}, {alice}, {} at 0, 1000, 3000, 4000 ms: what
   the events table then holds (the two joins in either order). *)
ScenarioEvents(u1, u2) ==
    <<Ev(u1, "join", 1000), Ev(u2, "join", 1000),
      Ev("bob", "leave", 3000), Ev("alice", "leave", 4000)>>

ScenarioRow(u) ==
    IF u = "bob" THEN Row("bob", 1000, 3000, 2) ELSE Row("alice", 1000, 4000, 3)

ClosedRowsHaveDuration ==
    \A i \in DOMAIN sessTable :
        LET row == sessTable[i] IN
        IF row.left_at = NoTime THEN row.duration_sec = NoTime
        ELSE /\ row.duration_sec >= 0
             /\ row.duration_sec * MsPerSec <= Max(0, row.left_at - row.joined_at)
             /\ Max(0, row.left_at - row.joined_at) < (row.duration_sec + 1) * MsPerSec

ScenarioHolds ==
    \A u1, u2 \in Users :
        events = ScenarioEvents(u1, u2) =>
            sessTable = <<ScenarioRow(u1), ScenarioRow(u2)>>

LeaveClosesLatestOpen ==
    last'.op = "tickOk" =>
        \A u \in last'.prev \ last'.next :
            LET ch == auth[last'.a].broadcasterLogin
                open == OpenRows(sessTable, u, ch) IN
            open # {} =>
                \E i \in open :
                    /\ \A j \in open : sessTable[j].joined_at <= sessTable[i].joined_at
                    /\ sessTable'[i].left_at = last'.ts
                    /\ sessTable'[i].duration_sec * MsPerSec
                           <= Max(0, last'.ts - sessTable[i].joined_at)
                    /\ Max(0, last'.ts - sessTable[i].joined_at)
                           < (sessTable'[i].duration_sec + 1) * MsPerSec
                    /\ \A j \in open \ {i} : sessTable'[j] = sessTable[j]

(* C6: a user joined by a tick at ts_A and left by a later tick at ts_B gets
   its most recently opened open session of the channel closed with
   left_at = ts_B and duration_sec = max(0, floor((ts_B - ts_A) / 1000));
   duration_sec of every closed session is >= 0, also when ts_B < ts_A; the
   snapshots {}, {alice, bob}, {alice}, {} at 0, 1000, 3000, 4000 ms give bob
   duration 2 and alice duration 3. *)
C6_LeaveClosesWithDuration ==
    /\ [](ClosedRowsHaveDuration /\ ScenarioHolds)
    /\ [][LeaveClosesLatestOpen]_vars

C6_Witness ==
    /\ events = ScenarioEvents("alice", "bob")
    /\ sessTable = <<Row("alice", 1000, 4000, 3), Row("bob", 1000, 3000, 2)>>
    /\ last.op = "tickOk"
    /\ last.ts = 4000

(* A leave stamped before the join it closes: the duration is clamped. *)
C6_ClampWitness ==
    \E i \in DOMAIN sessTable :
        /\ sessTable[i].left_at # NoTime
        /\ sessTable[i].left_at < sessTable[i].joined_at
        /\ sessTable[i].duration_sec = 0

----------------------------------------------------------------------------
(* Properties of timers and requests (SpecConc) *)

InFlight(r) == round[r].pc # "idle"

(* C3: tickOne for a tenant does not start while an earlier tickOne for the
   same tenant has not finished: no two rounds are suspended inside the tick
   of one tenant object. *)
C3_TickNeverOverlapsItself ==
    \A r1, r2 \in Rounds :
        (r1 # r2 /\ InFlight(r1) /\ InFlight(r2)) => round[r1].a # round[r2].a

HandlerWrites == {"exchangeOk", "meOk", "setChannel", "logout", "logoutErr"}

(* C4: between the start and the end of a tick of a tenant no OAuth
   callback, channel switch or logout writes the tenant's token, broadcaster
   identity or presence set, or replaces the tenant's entry of the sessions
   map: every step of such a handler leaves them as they were for every
   tenant whose tick is suspended. *)
C4_NoHandlerInterleavesTick ==
    [][last'.op \in HandlerWrites =>
          \A r \in Rounds :
              InFlight(r) =>
                  LET o == round[r].a IN
                  /\ sessions'[round[r].pos] = o
                  /\ auth'[o].token = auth[o].token
                  /\ auth'[o].broadcasterId = auth[o].broadcasterId
                  /\ auth'[o].broadcasterLogin = auth[o].broadcasterLogin
                  /\ auth'[o].current = auth[o].current]_vars

----------------------------------------------------------------------------
(* Properties of onboarding and logout (SpecOnboard) *)

TickOps ==
    {"timer", "timerIdle", "ensureFreshOk", "caught401", "tickOk", "tickErr",
     "tickThrew", "tickRefreshed", "tickRefreshErr"}

Incomplete(a) ==
    \/ a.token = NULL
    \/ a.broadcasterId = NULL
    \/ a.moderatorId = NULL
    \/ a.broadcasterLogin = NULL

(* C11: a tenant that lacks a token, a broadcaster id, a moderator id or a
   broadcaster login is skipped by every round: no slice of tickAll starts a
   refresh or a fetch for it or changes any of its fields (presence set,
   lastError, lastPollAt included), and a round that finds only such tenants
   writes no tenant, event, session or queue entry and ends at once. *)
C11_IncompleteTenantIsSkipped ==
    [][last'.op \in TickOps =>
          /\ \A i \in DOMAIN sessions :
                Incomplete(auth[sessions[i]]) => auth'[sessions[i]] = auth[sessions[i]]
          /\ \A r \in Rounds : StartsTick(r) => ~Incomplete(auth[round'[r].a])
          /\ (\A i \in DOMAIN sessions : Incomplete(auth[sessions[i]])) =>
                /\ last'.op \in {"timer", "timerIdle"} => last'.op = "timerIdle"
                /\ last'.op = "timerIdle" =>
                      /\ auth' = auth /\ round' = round
                      /\ events' = events /\ sessTable' = sessTable
                      /\ queue' = queue /\ saved' = saved]_vars

C11_Witness ==
    /\ last.op = "timer"
    /\ Len(sessions) = 2
    /\ auth[sessions[1]].token # NULL
    /\ auth[sessions[1]].moderatorId # NULL
    /\ auth[sessions[1]].broadcasterLogin = NULL
    /\ auth[sessions[1]].lastPollAt = NoTime
    /\ round[1].a = sessions[2]

C11_IdleWitness ==
    /\ last.op = "timerIdle"
    /\ events # <<>>

Cleared(a) ==
    /\ a.token = NULL /\ a.refreshToken = NULL
    /\ a.moderatorId = NULL /\ a.meLogin = NULL
    /\ a.broadcasterId = NULL /\ a.broadcasterLogin = NULL
    /\ a.current = {}

NoCreds(c) ==
    /\ c.token = NULL /\ c.refreshToken = NULL
    /\ c.moderatorId = NULL /\ c.meLogin = NULL
    /\ c.broadcasterId = NULL /\ c.broadcasterLogin = NULL

LoggedOutAt(i) ==
    /\ i \in DOMAIN sessions /\ i \in DOMAIN saved
    /\ Cleared(auth[sessions[i]])
    /\ NoCreds(saved[i])

(* C20 as claimed: after every logout the tenant's registry entry has no
   token, no refresh token, no identities and an empty presence set, and
   its record of the credential file holds no credentials. *)
C20_LogoutClearsRegistryAndFile ==
    last.op \in {"logout", "logoutErr"} =>
        \E i \in DOMAIN sessions : sessions[i] = last.a /\ LoggedOutAt(i)

(* C20 as amended: after a logout whose write of the credential file
   succeeds, the tenant's registry entry and its record of the file are
   cleared; while they are, every round skips the tenant, and only a
   successful OAuth token exchange gives it a token again (a restart does
   not). After a logout whose write fails the registry entry is cleared all
   the same. *)
C20_LogoutClearsWhenSaved ==
    /\ [](/\ last.op = "logout" =>
                \E i \in DOMAIN sessions : sessions[i] = last.a /\ LoggedOutAt(i)
          /\ last.op = "logoutErr" => Cleared(auth[last.a]))
    /\ [][\A i \in DOMAIN sessions :
             LoggedOutAt(i) =>
                 /\ last'.op \in TickOps =>
                       /\ auth'[sessions[i]] = auth[sessions[i]]
                       /\ \A r \in Rounds : StartsTick(r) => round'[r].a # sessions[i]
                 /\ (i \in DOMAIN sessions' /\ auth'[sessions'[i]].token # NULL) =>
                       last'.op = "exchangeOk"
                 /\ last'.op = "restart" => LoggedOutAt(i)']_vars

C20_Witness ==
    /\ last.op = "timer"
    /\ LoggedOutAt(1)
    /\ round[1].a = sessions[2]
    /\ \E k \in DOMAIN events : events[k].channel_login = "chanx"

----------------------------------------------------------------------------
(* Properties of the enricher under a burst (SpecBurst) *)

Count(s, x) == Cardinality({k \in DOMAIN s : s[k] = x})

NoDup(s) == \A x \in Range(s) : Count(s, x) = 1

InFlightDrains == {d \in DrainSlots : drains[d].pc # "idle"}

(* C12, as stated: a drain that starts includes every pending username
   exactly once in its batched lookup. *)
C12_NextDrainTakesEveryPending ==
    [][last'.op = "drainStart" =>
          \A u \in Range(queue) : Count(last'.batch, u) = 1]_vars

(* C12, amended: however often and in whatever letter case a username was
   enqueued, it is pending once; a drain that starts takes the first 50
   pending usernames in insertion order, each exactly once, and leaves the
   others pending. *)
C12_DrainTakesFirstPendingOnce ==
    /\ [](NoDup(queue) /\ \A d \in DrainSlots : NoDup(drains[d].batch))
    /\ [][last'.op = "drainStart" =>
             \A k \in DOMAIN queue :
                /\ Count(last'.batch, queue[k]) = (IF k <= BatchSize THEN 1 ELSE 0)
                /\ k > BatchSize => queue' [k - BatchSize] = queue[k]]_vars

(* A drain that follows enqueue(["Alice", "ALICE"]) looks "alice" up once,
   along with other names. *)
C12_Witness ==
    /\ last.op = "drainStart"
    /\ last.before = <<"Alice", "ALICE">>
    /\ Count(last.batch, "alice") = 1
    /\ Len(last.batch) > 1

(* C14: at most one drain batch is in flight, of at most 50 usernames, and
   the running flag is set exactly while it is; a drain invoked while one is
   running or while nothing is pending returns at once, and then removes no
   pending username and issues no lookup. *)
C14_OneBatchInFlight ==
    /\ [](/\ Cardinality(InFlightDrains) <= 1
          /\ running <=> InFlightDrains # {}
          /\ \A d \in DrainSlots : Len(drains[d].batch) <= BatchSize)
    /\ [][last'.op \in {"drainSkip", "drainStart"} =>
             /\ last'.op = "drainSkip" <=> (running \/ queue = <<>>)
             /\ last'.op = "drainSkip" => UNCHANGED <<queue, running, drains, profiles>>]_vars

(* A drain was invoked and returned at once while a full batch was in flight
   and names were pending. *)
C14_Witness ==
    /\ last.op = "drainSkip"
    /\ running
    /\ queue # <<>>
    /\ \E d \in DrainSlots : Len(drains[d].batch) = BatchSize

----------------------------------------------------------------------------
(* Properties of the enricher (SpecEnrich) *)

FollowerCountOf(res) == IF res.ok THEN res.total ELSE NoTime

LowerNames == {"alice", "bob", "carol"}

Lowered(xs) == {ToLower(xs[k]) : k \in {j \in DOMAIN xs : Truthy(xs[j])}}

(* C13: every user the batched lookup returned gets a profile upsert with
   the follower count its lookup returned, or null when that lookup threw; a
   follower lookup that throws does not end the drain, and the upsert leaves
   the profiles of other users and every tenant as they were. *)
C13_FollowerFailureIsLocal ==
    /\ [](last.op = "drainDone" =>
            /\ Len(last.fcs) = Len(last.users)
            /\ \A k \in DOMAIN last.users :
                  ProfileOf(last.users[k], FollowerCountOf(last.fcs[k]), now) \in profiles)
    /\ [][/\ last'.op # "followerThrew"
          /\ last'.op \in {"userSaved", "drainDone"} /\ last'.fcs # <<>> =>
                LET k == Len(last'.fcs)
                    u == last'.users[k]
                    mine == ProfileOf(u, FollowerCountOf(last'.fcs[k]), now) IN
                /\ mine \in profiles'
                /\ \A p \in profiles \cup profiles' :
                      p.username # mine.username => p \in profiles /\ p \in profiles'
                /\ auth' = auth
                /\ k < Len(last'.users) =>
                      /\ last'.op = "userSaved"
                      /\ running'
                      /\ drains'[last'.d].i = k + 1]_vars

(* A drain of two users ended: the follower lookup of the first threw and its
   profile has no follower count, the second has the count its lookup
   returned. *)
C13_Witness ==
    /\ last.op = "drainDone"
    /\ Len(last.users) = 2
    /\ ~last.fcs[1].ok
    /\ last.fcs[2].ok /\ last.fcs[2].total = 7
    /\ \E p, r \in profiles :
          /\ p.username = last.users[1].login /\ p.follower_count = NoTime
          /\ r.username = last.users[2].login /\ r.follower_count = 7

(* C19: the pending names are non-empty and lower-case, and a call of
   enqueue adds the lower-cased truthy names of its list and nothing else;
   repeating the call with the same list changes nothing. *)
C19_EnqueueIsSetInsertion ==
    /\ [](Range(queue) \subseteq LowerNames)
    /\ [][last'.op = "enqueue" =>
             /\ Range(queue') = Range(queue) \cup Lowered(last'.xs)
             /\ NoDup(queue')
             /\ enqueue(queue', last'.xs) = queue']_vars

(* enqueue(["bob", "", "alice"]) ran while "alice" was pending: "bob" was
   added after it, the empty name was not. *)
C19_Witness ==
    /\ last.op = "enqueue"
    /\ last.xs = <<"bob", "", "alice">>
    /\ queue = <<"alice", "bob">>

----------------------------------------------------------------------------
(* Properties of the enricher over time (SpecEnrichLive) *)

ExitOps == {"drainDone", "lookupThrew", "followerThrew", "saveThrew"}

(* C15: every way out of a drain, a failed batched lookup and a failed
   profile upsert included, releases the running flag, and a set flag is
   released eventually. *)
C15_RunningIsReleased ==
    /\ [][last'.op \in ExitOps => ~running' /\ InFlightDrains' = {}]_vars
    /\ running ~> ~running

(* A profile upsert threw while names were pending: the flag is down. *)
C15_Witness ==
    /\ last.op = "saveThrew"
    /\ ~running
    /\ queue # <<>>

(* C16: a call of enqueue leaves each of its names pending, also when a
   drain is in flight with the same name in its batch; a pending name leaves
   the pending set only into the batch of a drain that starts, which happens
   only while no drain is in flight; and a pending name is eventually in the
   batch of a drain that starts. *)
C16_EnqueuedNameIsNotLost ==
    /\ [][/\ last'.op = "enqueue" => Lowered(last'.xs) \subseteq Range(queue')
          /\ \A u \in Range(queue) \ Range(queue') :
                /\ last'.op = "drainStart"
                /\ u \in Range(last'.batch)
                /\ ~running]_vars
    /\ \A u \in LiveNames :
          (u \in Range(queue)) ~> (last.op = "drainStart" /\ u \in Range(last.batch))

(* "alice" was enqueued while a drain with "alice" in its batch is in
   flight, and is pending. *)
C16_Witness ==
    /\ last.op = "enqueue"
    /\ \E d \in InFlightDrains : "alice" \in Range(drains[d].batch)
    /\ "alice" \in Lowered(last.xs)
    /\ "alice" \in Range(queue)

----------------------------------------------------------------------------
(* Properties of ensureFreshToken (SpecFresh) *)

RefreshDue(a, t) ==
    /\ a.refreshToken \notin {NULL, ""}
    /\ a.tokenExpiresAt \notin {NoTime, 0}
    /\ t >= a.tokenExpiresAt - RefreshMarginMs

(* C17: a tick issues the refresh call of ensureFreshToken exactly when the
   tenant has a refresh token and a recorded expiry and the time is 60 s
   before the expiry or later; otherwise it goes on to the fetch with no
   refresh call, no field changed but lastPollAt, and the credential file
   as it was. *)
C17_RefreshExactlyWhenDue ==
    [][\A r \in Rounds : StartsTick(r) =>
          LET o == round'[r].a
              due == RefreshDue(auth[o], now) IN
          /\ round'[r].pc = (IF due THEN "ensureFresh" ELSE "fetchChatters")
          /\ round'[r].nfresh = (IF due THEN 1 ELSE 0)
          /\ auth'[o] = [auth[o] EXCEPT !.lastPollAt = now]
          /\ saved' = saved]_vars

(* A tick started exactly 60 s before the expiry and waits for the refresh. *)
C17_Witness ==
    /\ last.op = "timer"
    /\ round[1].pc = "ensureFresh"
    /\ now = auth[round[1].a].tokenExpiresAt - RefreshMarginMs

(* A tick started more than 60 s before the expiry of a tenant with a
   refresh token and goes on to the fetch. *)
C17_SkipWitness ==
    /\ last.op = "timer"
    /\ round[1].pc = "fetchChatters"
    /\ auth[round[1].a].refreshToken = "r1"
    /\ now = auth[round[1].a].tokenExpiresAt - RefreshMarginMs - 1

(* C18: a tick of a tenant with a refresh token whose expiry is in the past
   issues one refresh call; when it succeeds, the token is the returned one,
   the expiry is the current time plus the returned lifetime times 1000, the
   credential file holds the new state, and the tick goes on to the fetch
   with no further refresh call by ensureFreshToken. *)
C18_ExpiredTokenIsRefreshedOnce ==
    /\ [](\A r \in Rounds : round[r].nfresh <= 1)
    /\ [][/\ \A r \in Rounds :
                (/\ StartsTick(r)
                 /\ auth[round'[r].a].refreshToken = "r1"
                 /\ auth[round'[r].a].tokenExpiresAt > 0
                 /\ auth[round'[r].a].tokenExpiresAt < now)
                => round'[r].pc = "ensureFresh" /\ round'[r].nfresh = 1
          /\ last'.op = "ensureFreshOk" =>
                LET o == last'.a IN
                /\ \E resp \in RefreshResponses :
                      /\ auth'[o].token = resp.access_token
                      /\ auth'[o].tokenExpiresAt = now + resp.expires_in * 1000
                /\ saved' = [i \in DOMAIN sessions |-> Creds(auth'[sessions[i]])]
                /\ saved'[1].token = auth'[o].token
                /\ saved'[1].tokenExpiresAt = auth'[o].tokenExpiresAt
                /\ \E r \in Rounds : round'[r].a = o /\ round'[r].pc = "fetchChatters"
                                       /\ round'[r].nfresh = 1]_vars

(* At time 999 the only expiry that makes a refresh due is 500, which is in
   the past: the refresh succeeded, and tenant and file hold the new token
   and the expiry 999 + 61 * 1000. *)
C18_Witness ==
    /\ last.op = "ensureFreshOk"
    /\ now = 999
    /\ auth[last.a].token = "t2"
    /\ auth[last.a].tokenExpiresAt = 61999
    /\ saved[1].token = "t2"
    /\ saved[1].tokenExpiresAt = 61999

----------------------------------------------------------------------------
(* Properties of restart and persistence (SpecOnboard) *)

OpenUsers(ch) ==
    {sessTable[k].username :
        k \in {j \in DOMAIN sessTable :
                  sessTable[j].left_at = NoTime /\ sessTable[j].channel_login = ch}}

(* C21: after a restart the registry has one tenant per persisted record,
   with exactly the credentials and identities of that record, no poll time
   and no error; its presence set is the set of usernames with an open
   session in the store for its channel, and empty when it has no channel. *)
C21_RestartRestoresCredentialsOnly ==
    [][last'.op = "restart" =>
          /\ DOMAIN sessions' = DOMAIN saved
          /\ \A i \in DOMAIN saved :
                LET a == auth'[sessions'[i]] IN
                /\ Creds(a) = saved[i]
                /\ a.current = (IF saved[i].broadcasterLogin = NULL THEN {}
                                ELSE OpenUsers(saved[i].broadcasterLogin))
                /\ a.lastPollAt = NoTime
                /\ a.lastError = NULL
          /\ \A i, j \in DOMAIN saved : sessions'[i] = sessions'[j] => i = j]_vars

(* The process restarted on a file with a logged-out tenant and a tenant
   whose channel has an open session: the first has no channel and nobody
   present, the second has the user of the open session present. *)
C21_Witness ==
    /\ last.op = "restart"
    /\ \E i, j \in DOMAIN sessions :
          /\ auth[sessions[i]].broadcasterLogin = NULL
          /\ auth[sessions[i]].current = {}
          /\ auth[sessions[j]].current = {"alice"}
          /\ OpenUsers(auth[sessions[j]].broadcasterLogin) = {"alice"}

----------------------------------------------------------------------------
(* Properties of persistence under requests (SpecConc) *)

Quiescent ==
    /\ \A r \in Rounds : round[r].pc = "idle"
    /\ \A q \in Reqs : req[q].pc = "idle"

(* C22: whenever no tick and no request handler is in progress, the
   persisted record of every tenant equals the tenant's in-memory token,
   refresh token, expiry, identities and scopes; a tenant that has no record
   yet has none of them. *)
C22_PersistedEqualsMemoryWhenIdle ==
    Quiescent =>
        \A i \in DOMAIN sessions :
            Creds(auth[sessions[i]]) =
                (IF i \in DOMAIN saved THEN saved[i] ELSE Creds(newSessionAuth))

----------------------------------------------------------------------------
(* Properties of the diff of a tick (SpecDiff) *)

(* C23: a tick that completes on snapshot S with previous presence set P
   appends one join event and one open session row for each member of
   S \ P and one leave event for each member of P \ S, all with the tick's
   timestamp and the tenant's channel, and no other event or row; it leaves
   the rows of the members of S \cap P as they were, and ends with presence
   set S and no last error. *)
C23_TickWritesExactlyTheDiff ==
    [][last'.op = "tickOk" =>
          LET o == last'.a
              P == last'.prev
              S == last'.next
              ch == auth[o].broadcasterLogin
              fresh == SubSeq(events', Len(events) + 1, Len(events'))
              rows == SubSeq(sessTable', Len(sessTable) + 1, Len(sessTable'))
              Want(u, type) == [username |-> u, event_type |-> type,
                                ts |-> last'.ts, channel_login |-> ch]
              Opened(u) == [username |-> u, joined_at |-> last'.ts, left_at |-> NoTime,
                            duration_sec |-> NoTime, channel_login |-> ch] IN
          /\ P = auth[o].current
          /\ SubSeq(events', 1, Len(events)) = events
          /\ \A u \in S \ P : Count(fresh, Want(u, "join")) = 1 /\ Count(rows, Opened(u)) = 1
          /\ \A u \in P \ S : Count(fresh, Want(u, "leave")) = 1
          /\ Len(fresh) = Cardinality(S \ P) + Cardinality(P \ S)
          /\ Len(rows) = Cardinality(S \ P)
          /\ \A k \in DOMAIN sessTable :
                sessTable[k].username \in S \cap P => sessTable'[k] = sessTable[k]
          /\ auth'[o].current = S
          /\ auth'[o].lastError = NULL]_vars

(* A tick completed whose snapshot kept one user, lost one and gained one. *)
C23_Witness ==
    /\ last.op = "tickOk"
    /\ last.next \cap last.prev # {}
    /\ last.next \ last.prev # {}
    /\ last.prev \ last.next # {}
    /\ auth[last.a].current = last.next
    /\ Len(events) = 4

(* C24: a tick that completes adds to the pending names exactly the
   usernames it joined, after the names already pending; a tick that joined
   nobody leaves the pending names as they were. *)
C24_OnlyJoinsAreEnqueued ==
    [][last'.op = "tickOk" =>
          LET joined == last'.next \ last'.prev IN
          /\ Range(queue') = Range(queue) \cup joined
          /\ SubSeq(queue', 1, Len(queue)) = queue
          /\ NoDup(queue')
          /\ joined = {} => queue' = queue]_vars

(* A tick completed in which one user left and another joined, and only the
   one who joined is pending. *)
C24_Witness ==
    /\ last.op = "tickOk"
    /\ last.prev \ last.next # {}
    /\ last.next \ last.prev # {}
    /\ Range(queue) = last.next \ last.prev

(* A tick completed in which users only left, and nothing is pending. *)
C24_LeavesOnlyWitness ==
    /\ last.op = "tickOk"
    /\ last.prev \ last.next # {}
    /\ last.next \ last.prev = {}
    /\ queue = <<>>

----------------------------------------------------------------------------
(* Properties of refresh token rotation (SpecRotate) *)

RefreshOps == {"ensureFreshOk", "tickRefreshed"}

(* C25: a successful refresh, by ensureFreshToken or by the 401 handler,
   sets the refresh token to the one of the response when the response
   carries one (the response with access token t2) and keeps the old one
   when it carries none (the response with access token t3); no step takes
   the refresh token away from a tenant that has one. *)
C25_RefreshTokenKeptOrReplaced ==
    [][/\ last'.op \in RefreshOps =>
            LET o == last'.a IN
            /\ auth[o].refreshToken # NULL
            /\ auth'[o].token \in {"t2", "t3"}
            /\ auth'[o].token = "t2" => auth'[o].refreshToken = "r2"
            /\ auth'[o].token = "t3" => auth'[o].refreshToken = auth[o].refreshToken
       /\ \A o \in ObjIds :
            auth[o].refreshToken # NULL => auth'[o].refreshToken # NULL]_vars

(* The 401 handler refreshed with a response that carried no refresh token:
   tenant and credential file keep the old one. *)
C25_Witness ==
    /\ last.op = "tickRefreshed"
    /\ auth[last.a].token = "t3"
    /\ auth[last.a].refreshToken = "r1"
    /\ saved[1].refreshToken = "r1"

(* ensureFreshToken refreshed with a response that carried a new refresh
   token. *)
C25_ReplacedWitness ==
    /\ last.op = "ensureFreshOk"
    /\ auth[last.a].token = "t2"
    /\ auth[last.a].refreshToken = "r2"
    /\ saved[1].refreshToken = "r2"

----------------------------------------------------------------------------
(* Properties of the store over time (SpecDiff) *)

(* C26: every step keeps the events it found, unchanged and in place, and
   adds new ones behind them; it keeps every session row, with its username,
   channel and joined_at; a row whose left_at is set is never changed again;
   and a tick opens a new row for every user it joined. *)
C26_LogAppendOnlySessionsStayClosed ==
    [][/\ Len(events') >= Len(events)
       /\ SubSeq(events', 1, Len(events)) = events
       /\ Len(sessTable') >= Len(sessTable)
       /\ \A k \in DOMAIN sessTable :
             /\ sessTable'[k].username = sessTable[k].username
             /\ sessTable'[k].channel_login = sessTable[k].channel_login
             /\ sessTable'[k].joined_at = sessTable[k].joined_at
             /\ sessTable[k].left_at # NoTime => sessTable'[k] = sessTable[k]
       /\ last'.op = "tickOk" =>
             \A u \in last'.next \ last'.prev :
                 \E k \in DOMAIN sessTable' \ DOMAIN sessTable :
                     /\ sessTable'[k].username = u
                     /\ sessTable'[k].left_at = NoTime]_vars

(* A user left and joined again: the store holds the closed row of the first
   visit, with its duration, and a later open row of the same user. *)
C26_Witness ==
    \E i, j \in DOMAIN sessTable :
        /\ i < j
        /\ sessTable[i].username = sessTable[j].username
        /\ sessTable[i].channel_login = sessTable[j].channel_login
        /\ sessTable[i].left_at # NoTime
        /\ sessTable[i].duration_sec = (sessTable[i].left_at - sessTable[i].joined_at) \div MsPerSec
        /\ sessTable[j].left_at = NoTime
        /\ sessTable[j].joined_at >= sessTable[i].left_at
        /\ Len(events) = 3

----------------------------------------------------------------------------
(* Properties of a failed drain (SpecEnrich) *)

(* C27: a drain that starts leaves none of the names of its batch pending
   when it suspends on the batched lookup; a drain that ends, by a failed
   lookup or otherwise, leaves the pending names as they were; and a name
   becomes pending only by a call of enqueue that has it in its list. *)
C27_FailedBatchIsDropped ==
    [][/\ last'.op = "drainStart" =>
             /\ drains'[last'.d].pc = "fetchUsers"
             /\ Range(queue') \cap Range(last'.batch) = {}
       /\ last'.op \in ExitOps => queue' = queue
       /\ \A u \in Range(queue') \ Range(queue) :
             last'.op = "enqueue" /\ u \in Lowered(last'.xs)]_vars

(* The batched lookup of a drain with "alice" in its batch threw: "alice"
   is not pending, a name enqueued since the batch was taken is. *)
C27_Witness ==
    /\ last.op = "lookupThrew"
    /\ "alice" \in Range(last.batch)
    /\ "alice" \notin Range(queue)
    /\ queue # <<>>

----------------------------------------------------------------------------
(* Properties of the token of the enricher (SpecToken) *)

CallOps == {"drainStart", "usersOk", "userSaved"}

(* C28: the access token a drain presents in a lookup is, when the call is
   made, the access token of a tenant in the registry. *)
C28_DrainPresentsCurrentToken ==
    [][last'.op \in CallOps =>
          \E i \in DOMAIN sessions' :
              /\ auth'[sessions'[i]].token # NULL
              /\ drains'[last'.d].tok = auth'[sessions'[i]].token]_vars

----------------------------------------------------------------------------
(* Properties of the enricher under a steady load (SpecStarve) *)

Pos(q, u) == CHOOSE k \in DOMAIN q : q[k] = u

StarveNames == {"1", ToString(BatchSize + 1), "alice", "bob"}

(* C29: a drain that starts takes the pending names in insertion order, the
   50 oldest, and leaves the others pending in their order, so no name that
   stays pending moves back; and while new names keep being enqueued, every
   pending name is eventually in the batch of a drain that starts. *)
C29_NoPendingNameStarves ==
    /\ [][/\ last'.op = "drainStart" =>
                LET n == IF Len(queue) < BatchSize THEN Len(queue) ELSE BatchSize IN
                /\ last'.batch = SubSeq(queue, 1, n)
                /\ queue' = SubSeq(queue, n + 1, Len(queue))
          /\ \A u \in Range(queue) \cap Range(queue') :
                Pos(queue', u) <= Pos(queue, u)]_vars
    /\ \A u \in StarveNames :
          (u \in Range(queue)) ~> (last.op = "drainStart" /\ u \in Range(last.batch))

(* A name that an earlier drain left pending, because 50 older names were
   ahead of it, heads the full batch of the drain that starts now, while
   names enqueued after it stay pending. *)
C29_Witness ==
    /\ last.op = "drainStart"
    /\ Len(last.batch) = BatchSize
    /\ last.batch[1] = ToString(BatchSize + 1)
    /\ queue # <<>>

====
